---- MODULE Spec2Model ----
(***************************************************************************)
(* Model of the synthia miner: the provider adapters (AnthropicModule,     *)
(* BaseMiner / Miner_0, OpenrouterModule, OpenAIModule), the generate and  *)
(* get_model endpoints of BaseLLM, and the response shaping of Miner_0.    *)
(* Python text is modelled by TLA+ strings, characters are addressed with  *)
(* SubSeq, Python's None by the empty tuple and a present value v by <<v>>.*)
(***************************************************************************)
EXTENDS Integers, Sequences, FiniteSets, TLC

VARIABLES cls, settings_model, ctor, pc, req_prompt, backend, calls,
          outcome, result, model_result, field_phrases, fmt_in, fmt_out,
          ext_in, ext_out, fwd_in, fwd_out, got_in, got_out, builds, thr

\* the variables of the calls to _extract_field, to forward and to
\* _get_field_phrases
ext_vars == <<ext_in, ext_out>>

fwd_vars == <<fwd_in, fwd_out>>

got_vars == <<got_in, got_out>>

phrase_vars == <<got_vars, builds, thr>>

vars == <<cls, settings_model, ctor, pc, req_prompt, backend, calls,
          outcome, result, model_result, field_phrases, fmt_in, fmt_out,
          ext_vars, fwd_vars, phrase_vars>>

(***************************************************************************)
(* Bounds of the model.                                                    *)
(***************************************************************************)
\* largest target_length handed to _format_response
MaxTarget == 2
\* largest number the random source starts from in a call of forward
MaxSeed == 1
\* number of threads that call _get_field_phrases on one instance
MaxThreads == 2

(***************************************************************************)
(* Optional values.                                                        *)
(***************************************************************************)
None == <<>>

Str(s) == <<s>>

Val(o) == o[1]

\* Python truthiness of an optional text: None and "" are falsy
Truthy(o) == o # None /\ Val(o) # ""

(***************************************************************************)
(* Python string primitives used by the source.                            *)
(***************************************************************************)
UpperAlphabet == "ABCDEFGHIJKLMNOPQRSTUVWXYZ"

LowerAlphabet == "abcdefghijklmnopqrstuvwxyz"

Char(s, i) == SubSeq(s, i, i)

\* s[a:b] with 0 <= a, b <= len(s)
Slice(s, a, b) == SubSeq(s, a + 1, b)

IsUpper(c) == \E i \in 1..26 : Char(UpperAlphabet, i) = c

IsLower(c) == \E i \in 1..26 : Char(LowerAlphabet, i) = c

IsCased(c) == IsUpper(c) \/ IsLower(c)

LowerChar(c) ==
    IF IsUpper(c)
    THEN Char(LowerAlphabet, CHOOSE i \in 1..26 : Char(UpperAlphabet, i) = c)
    ELSE c

UpperChar(c) ==
    IF IsLower(c)
    THEN Char(UpperAlphabet, CHOOSE i \in 1..26 : Char(LowerAlphabet, i) = c)
    ELSE c

IsSpace(c) == c \in {" ", "\n", "\t", "\r"}

RECURSIVE str_lower(_)
str_lower(s) ==
    IF s = "" THEN "" ELSE LowerChar(Head(s)) \o str_lower(Tail(s))

\* str.title(): a cased character is upper-cased when it follows an uncased
\* one (or starts the text) and lower-cased otherwise
RECURSIVE TitleFrom(_, _)
TitleFrom(s, prevCased) ==
    IF s = "" THEN ""
    ELSE LET c == Head(s)
         IN  (IF prevCased THEN LowerChar(c) ELSE UpperChar(c))
             \o TitleFrom(Tail(s), IsCased(c))

str_title(s) == TitleFrom(s, FALSE)

\* str.find(sub, start): lowest 0-based index >= start, or -1
str_find(s, sub, start) ==
    LET hits == { i \in start..(Len(s) - Len(sub)) :
                     Slice(s, i, i + Len(sub)) = sub }
    IN  IF hits = {} THEN -1
        ELSE CHOOSE i \in hits : \A j \in hits : i <= j

\* sub in s
str_contains(sub, s) == str_find(s, sub, 0) # -1

RECURSIVE LStrip(_)
LStrip(s) == IF s # "" /\ IsSpace(Head(s)) THEN LStrip(Tail(s)) ELSE s

RECURSIVE RStrip(_)
RStrip(s) ==
    IF s # "" /\ IsSpace(Char(s, Len(s)))
    THEN RStrip(SubSeq(s, 1, Len(s) - 1))
    ELSE s

str_strip(s) == RStrip(LStrip(s))

\* the indexes in lo..hi that hold the character sep, in order
RECURSIVE SepsIn(_, _, _, _)
SepsIn(s, sep, lo, hi) ==
    IF lo > hi THEN <<>>
    ELSE IF lo = hi THEN (IF Char(s, lo) = sep THEN <<lo>> ELSE <<>>)
         ELSE SepsIn(s, sep, lo, (lo + hi) \div 2)
              \o SepsIn(s, sep, (lo + hi) \div 2 + 1, hi)

\* the pieces between the separators at the indexes `at`
Pieces(s, at) ==
    [k \in 1..(Len(at) + 1) |->
        SubSeq(s, IF k = 1 THEN 1 ELSE at[k - 1] + 1,
                  IF k > Len(at) THEN Len(s) ELSE at[k] - 1)]

\* str.split(sep) for a one-character separator: never empty, keeps "" pieces
str_split(s, sep) == Pieces(s, SepsIn(s, sep, 1, Len(s)))

\* the end of the word that starts at index i: the last index from i on
\* before whitespace or the end of the text
RECURSIVE WordEnd(_, _)
WordEnd(s, i) ==
    IF i >= Len(s) \/ IsSpace(Char(s, i + 1)) THEN i ELSE WordEnd(s, i + 1)

\* a word starts at index i: a character that is not whitespace and follows
\* whitespace or opens the text
WordStart(s, i) ==
    /\ ~IsSpace(Char(s, i))
    /\ (i = 1 \/ IsSpace(Char(s, i - 1)))

\* the words that start at an index in lo..hi, in order
RECURSIVE WordsIn(_, _, _)
WordsIn(s, lo, hi) ==
    IF lo > hi THEN <<>>
    ELSE IF lo = hi
         THEN IF WordStart(s, lo) THEN <<SubSeq(s, lo, WordEnd(s, lo))>>
              ELSE <<>>
         ELSE WordsIn(s, lo, (lo + hi) \div 2)
              \o WordsIn(s, (lo + hi) \div 2 + 1, hi)

\* str.split(): split on runs of whitespace, no empty pieces
str_split_ws(s) == WordsIn(s, 1, Len(s))

\* sep.join(parts)
RECURSIVE str_join(_, _)
str_join(sep, parts) ==
    IF parts = <<>> THEN ""
    ELSE IF Len(parts) = 1 THEN parts[1]
         ELSE LET half == Len(parts) \div 2
              IN  str_join(sep, SubSeq(parts, 1, half)) \o sep
                  \o str_join(sep, SubSeq(parts, half + 1, Len(parts)))

(***************************************************************************)
(* Inputs: classes, settings, prompts and what a backend can send back.    *)
(***************************************************************************)
AnthropicBased == {"AnthropicModule", "BaseMiner", "Miner_0"}

Classes == AnthropicBased \cup {"OpenrouterModule", "OpenAIModule"}

\* OpenrouterModule.module_map
module_map ==
    [k \in {"claude-3-opus-20240229", "anthropic/claude-3-opus",
            "anthropic/claude-3.5-sonnet", "claude-3-5-sonnet-20240620"} |->
        IF k \in {"claude-3-opus-20240229", "anthropic/claude-3-opus"}
        THEN "anthropic/claude-3-opus"
        ELSE "anthropic/claude-3.5-sonnet"]

\* values of settings.model: the keys of module_map and two OpenAI names
ModelIds == DOMAIN module_map \cup {"gpt-4", "gpt-4-1106-preview"}

UserPrompts == {"What is 2+2?", "Tell me about cats.", "Regarding, what?"}

ResponseTexts == {"4", "", " 4\n", "It is 4. Ask about math", "About."}

\* content block lists of an Anthropic message
BlockLists == {<<>>, <<"4">>, <<"It is ", "4.">>, <<"More about ", "math">>,
               <<"A", "b", "out.">>}

\* exceptions a client call can raise; status_code is absent on some
NoExc == [type |-> "", msg |-> "", status_code |-> None]

Exceptions ==
    { [type |-> "APIConnectionError", msg |-> "Connection error.",
       status_code |-> None],
      [type |-> "RateLimitError", msg |-> "Error code: 429",
       status_code |-> <<429>>] }

Raised == [kind : {"raise"}, exc : Exceptions]

AnthropicStopReasons == {"end_turn", "max_tokens", "stop_sequence", "tool_use"}

AnthropicEvents ==
    Raised \cup
    [kind : {"message"}, stop_reason : AnthropicStopReasons,
     stop_sequence : {None, Str("END")}, content : BlockLists]

OpenAIFinishReasons == {"stop", "length", "content_filter"}

OpenAIEvents ==
    Raised \cup
    [kind : {"completion"}, finish_reason : OpenAIFinishReasons,
     content : {None} \cup {Str(t) : t \in ResponseTexts}]

OpenrouterFinishReasons == {"end_turn", "stop", "length"}

\* the JSON body of the aggregator: error is the code of the error envelope
\* (None when there is no envelope), choices tells whether "choices" is there
OpenrouterEvents ==
    Raised \cup
    [kind : {"json"}, error : {None, <<402>>, <<429>>}, choices : BOOLEAN,
     finish_reason : OpenrouterFinishReasons,
     content : {Str(t) : t \in ResponseTexts}]

BackendEvents(c) ==
    IF c \in AnthropicBased THEN AnthropicEvents
    ELSE IF c = "OpenAIModule" THEN OpenAIEvents
    ELSE OpenrouterEvents

(***************************************************************************)
(* Outcomes of prompt and results of generate.                             *)
(***************************************************************************)
Ret(answer, error) ==
    [kind |-> "return", answer |-> answer, error |-> error, exc |-> NoExc]

Raise(e) == [kind |-> "raise", answer |-> None, error |-> None, exc |-> e]

NoOutcome == [kind |-> "none", answer |-> None, error |-> None, exc |-> NoExc]

HTTPException(status_code, detail) ==
    [kind |-> "HTTPException", answer |-> None,
     status_code |-> status_code, detail |-> detail]

AnswerDict(answer) ==
    [kind |-> "answer", answer |-> answer, status_code |-> 200, detail |-> None]

NoResult == [kind |-> "none", answer |-> None, status_code |-> 0, detail |-> None]

(***************************************************************************)
(* _extract_field of AnthropicModule and OpenAIModule (same code).         *)
(***************************************************************************)
\* the indicators with "in the domain of" scanned last
indicators_domainlast ==
    << "in the field of", "regarding", "concerning", "about", "related to",
       "in terms of", "with respect to", "in the domain of" >>

indicators ==
    << "in the field of", "in the domain of", "regarding", "concerning",
       "about", "related to", "in terms of", "with respect to" >>

FieldPunctuation == {".", ",", "!", "?", "(", ")", "[", "]", "{", "}"}

\* next(i for i, c in enumerate(text[start:], start) if c in '...', len(text))
FieldEnd(text, start) ==
    LET stops == { i \in start..(Len(text) - 1) :
                      Char(text, i + 1) \in FieldPunctuation }
    IN  IF stops = {} THEN Len(text)
        ELSE CHOOSE i \in stops : \A j \in stops : i <= j

RECURSIVE ExtractFrom(_, _)
ExtractFrom(text, k) ==
    IF k > Len(indicators) THEN None
    ELSE LET indicator == indicators[k]
         IN  IF str_contains(indicator, text)
             THEN LET start == str_find(text, indicator, 0) + Len(indicator)
                      end   == FieldEnd(text, start)
                      field == str_strip(Slice(text, start, end))
                  IN  IF field # "" THEN Str(str_title(field))
                      ELSE ExtractFrom(text, k + 1)
             ELSE ExtractFrom(text, k + 1)

_extract_field(text) == ExtractFrom(str_lower(text), 1)

\* self._extract_field(user_prompt) or self._extract_field(response)
FieldOf(user_prompt, response) ==
    IF Truthy(_extract_field(user_prompt)) THEN _extract_field(user_prompt)
    ELSE _extract_field(response)

(***************************************************************************)
(* prompt of each adapter, as a function of the user prompt and of what    *)
(* the backend call did.                                                   *)
(***************************************************************************)
\* the rejection message without the reason the backend reported
StopMessage_noreason(stop_reason) ==
    "Could not generate an answer. Stop reason "

StopMessage(stop_reason) ==
    "Could not generate an answer. Stop reason " \o stop_reason

RECURSIVE JoinBlocks(_)
JoinBlocks(blocks) ==
    IF blocks = <<>> THEN "" ELSE Head(blocks) \o JoinBlocks(Tail(blocks))

\* BaseMiner._treat_response (AnthropicModule._treat_response is the same)
_treat_response(message) ==
    IF message.stop_sequence # None \/ message.stop_reason # "end_turn"
    THEN Ret(None, Str(StopMessage(message.stop_reason)))
    ELSE Ret(Str(JoinBlocks(message.content)), Str(""))

\* BaseMiner.prompt: nothing is caught
BaseMinerPrompt(user_prompt, ev) ==
    IF ev.kind = "raise" THEN Raise(ev.exc) ELSE _treat_response(ev)

\* the name random is bound only inside _format_response (a local import), so
\* random.choice(self.explanation_types) in prompt raises NameError
NameErrorRandom == "name 'random' is not defined"

\* AnthropicModule.prompt: every exception after the entry is caught
AnthropicPrompt(user_prompt, ev) ==
    IF ev.kind = "raise" THEN Ret(None, Str(ev.exc.msg))
    ELSE IF ev.stop_sequence # None \/ ev.stop_reason # "end_turn"
         THEN Ret(None, Str(StopMessage(ev.stop_reason)))
         ELSE LET response == JoinBlocks(ev.content)
              IN  IF response # "" /\ Truthy(FieldOf(user_prompt, response))
                  THEN Ret(None, Str(NameErrorRandom))
                  ELSE Ret(Str(response), Str(""))

\* OpenAIModule.prompt: returns (None, response) and (str(e), "")
OpenAIPrompt(user_prompt, ev) ==
    IF ev.kind = "raise" THEN Ret(Str(ev.exc.msg), Str(""))
    ELSE LET response == ev.content
         IN  IF Truthy(response)
                /\ Truthy(FieldOf(user_prompt, Val(response)))
             THEN Ret(Str(NameErrorRandom), Str(""))
             ELSE Ret(None, response)

KeyError(key) ==
    [type |-> "KeyError", msg |-> "'" \o key \o "'", status_code |-> None]

\* OpenrouterModule.module_name_mapping: self.module_map[model_name]
module_name_mapping(model_name) ==
    IF model_name \in DOMAIN module_map
    THEN [ok |-> TRUE, name |-> module_map[model_name]]
    ELSE [ok |-> FALSE, name |-> model_name]

\* OpenrouterModule.prompt reading "choices" before the error envelope
OpenrouterPrompt_choicesfirst(model, user_prompt, ev) ==
    IF ~module_name_mapping(model).ok THEN Raise(KeyError(model))
    ELSE IF ev.kind = "raise" THEN Raise(ev.exc)
    ELSE IF ~ev.choices THEN Raise(KeyError("choices"))
    ELSE IF ev.error # None /\ Val(ev.error) = 402
         THEN Ret(None, Str("Insufficient credits"))
    ELSE IF ev.finish_reason # "end_turn"
         THEN Ret(None, Str("Could not get a complete answer: "
                            \o ev.finish_reason))
    ELSE Ret(ev.content, Str(""))

\* OpenrouterModule.prompt returning the stripped content
OpenrouterPrompt_strip(model, user_prompt, ev) ==
    IF ~module_name_mapping(model).ok THEN Raise(KeyError(model))
    ELSE IF ev.kind = "raise" THEN Raise(ev.exc)
    ELSE IF ev.error # None /\ Val(ev.error) = 402
         THEN Ret(None, Str("Insufficient credits"))
    ELSE IF ~ev.choices THEN Raise(KeyError("choices"))
    ELSE IF ev.finish_reason # "end_turn"
         THEN Ret(None, Str("Could not get a complete answer: "
                            \o ev.finish_reason))
    ELSE Ret(Str(str_strip(Val(ev.content))), Str(""))

\* OpenrouterModule.prompt: nothing is caught
OpenrouterPrompt(model, user_prompt, ev) ==
    IF ~module_name_mapping(model).ok THEN Raise(KeyError(model))
    ELSE IF ev.kind = "raise" THEN Raise(ev.exc)
    ELSE IF ev.error # None /\ Val(ev.error) = 402
         THEN Ret(None, Str("Insufficient credits"))
    ELSE IF ~ev.choices THEN Raise(KeyError("choices"))
    ELSE IF ev.finish_reason # "end_turn"
         THEN Ret(None, Str("Could not get a complete answer: "
                            \o ev.finish_reason))
    ELSE Ret(ev.content, Str(""))

Prompt(c, model, user_prompt, ev) ==
    IF c = "AnthropicModule" THEN AnthropicPrompt(user_prompt, ev)
    ELSE IF c \in {"BaseMiner", "Miner_0"} THEN BaseMinerPrompt(user_prompt, ev)
    ELSE IF c = "OpenAIModule" THEN OpenAIPrompt(user_prompt, ev)
    ELSE OpenrouterPrompt(model, user_prompt, ev)

(***************************************************************************)
(* BaseLLM.generate and BaseLLM.get_model.                                 *)
(***************************************************************************)
\* generate with the status of the exception ignored
generate_always500(message) ==
    IF message.kind = "raise"
    THEN [kind |-> "HTTPException", answer |-> None, status_code |-> 500,
          detail |-> <<message.exc.msg>>]
    ELSE IF message.answer = None
         THEN [kind |-> "HTTPException", answer |-> None, status_code |-> 500,
               detail |-> message.error]
         ELSE [kind |-> "answer", answer |-> message.answer,
               status_code |-> 200, detail |-> None]

\* getattr(e, 'status_code', 500)
StatusOf(e) == IF e.status_code = None THEN 500 ELSE Val(e.status_code)

\* the except clause and the match statement of generate
generate(message) ==
    IF message.kind = "raise"
    THEN HTTPException(StatusOf(message.exc), Str(message.exc.msg))
    ELSE IF message.answer = None
         THEN HTTPException(500, message.error)
         ELSE AnswerDict(message.answer)

\* self.model: a property of every class but OpenAIModule, where model is a
\* plain method and self.model is the bound method itself
ModelAttr(c, model) ==
    IF c = "OpenAIModule"
    THEN [type |-> "method", value |-> "OpenAIModule.model"]
    ELSE IF c = "OpenrouterModule"
         THEN IF module_name_mapping(model).ok
              THEN [type |-> "str", value |-> module_name_mapping(model).name]
              ELSE [type |-> "KeyError", value |-> model]
         ELSE [type |-> "str", value |-> model]

get_model(c, model) == [model |-> ModelAttr(c, model)]

NoModel == [model |-> [type |-> "none", value |-> ""]]

(***************************************************************************)
(* The response shaping of Miner_0.                                        *)
(***************************************************************************)
\* base_phrases of _get_field_phrases
base_phrases(field) ==
    << "In the context of " \o field \o ",",
       "From a " \o field \o " perspective,",
       "As established in " \o field \o " literature,",
       "Contemporary research in " \o field \o " suggests,",
       "A fundamental principle in " \o field \o " states,",
       "Drawing from " \o field \o " methodology,",
       "According to " \o field \o " theory,",
       "Recent advances in " \o field \o " demonstrate,",
       "The " \o field \o " paradigm indicates,",
       "Empirical evidence in " \o field \o " shows," >>

\* a store that leaves the cache with the stored field alone
CachePut_only(cache, field, phrases) == [f \in {field} |-> phrases]

\* the cache self.field_phrases is a function from field to phrase list;
\* self.field_phrases[field] = phrases
CachePut(cache, field, phrases) ==
    [f \in DOMAIN cache \cup {field} |->
        IF f = field THEN phrases ELSE cache[f]]

\* _get_field_phrases without the membership test: the list is built and
\* stored on every call
_get_field_phrases_rebuild(cache, field) ==
    [cache |-> CachePut(cache, field, base_phrases(field)),
     phrases |-> base_phrases(field), built |-> {field}]

\* Miner_0._get_field_phrases: the cache after the call, the list returned
\* and the fields whose list the call built
_get_field_phrases(cache, field) ==
    LET miss  == field \notin DOMAIN cache
        after == IF miss THEN CachePut(cache, field, base_phrases(field))
                 ELSE cache
    IN  [cache |-> after, phrases |-> after[field],
         built |-> IF miss THEN {field} ELSE {}]

expert_audiences ==
    {"expert scientist", "lead professor", "academic expert", "industry expert"}

advanced_audiences ==
    {"early career researcher", "experienced researcher", "graduate student"}

intermediate_audiences == {"undergraduate student", "enthusiast", "hobbyist"}

\* Miner_0._get_audience_appropriate_terms
_get_audience_appropriate_terms(audience) ==
    IF audience \in expert_audiences
    THEN <<"paradigmatic", "ontological", "epistemological", "axiomatically",
           "hermeneutic">>
    ELSE IF audience \in advanced_audiences
    THEN <<"theoretical", "methodological", "systematic", "analytical",
           "empirical">>
    ELSE IF audience \in intermediate_audiences
    THEN <<"conceptual", "practical", "structured", "fundamental",
           "essential">>
    ELSE <<"basic", "clear", "straightforward", "simple", "direct">>

\* the for loop of _format_response over the lines: the subject found (None
\* when no line has a closed quoted span) and the lines kept as content
RECURSIVE ScanLines(_, _, _)
ScanLines(lines, subject, content) ==
    IF lines = <<>> THEN [subject |-> subject, content |-> content]
    ELSE LET line  == Head(lines)
             start == str_find(line, "\"", 0)
             end   == str_find(line, "\"", start + 1)
         IN  IF ~Truthy(subject) /\ str_contains("\"", line) /\ end # -1
             THEN ScanLines(Tail(lines), Str(Slice(line, start, end + 1)),
                            content)
             ELSE ScanLines(Tail(lines), subject, Append(content, line))

\* the while loop of _format_response: every word list the random choices
\* can produce; one list entry is appended per round
RECURSIVE Pad(_, _, _, _)
Pad(words, target_length, phrases, audience_terms) ==
    IF Len(words) >= target_length THEN {words}
    ELSE LET pool == IF Len(words) % 3 = 0 THEN phrases ELSE audience_terms
         IN  UNION { Pad(Append(words, pool[i]), target_length, phrases,
                         audience_terms) : i \in 1..Len(pool) }

\* a cut that keeps the last target_length words
TrimWords_tail(words, target_length) ==
    SubSeq(words, Len(words) - target_length + 1, Len(words))

\* words[:target_length]
TrimWords(words, target_length) == SubSeq(words, 1, target_length)

Formatted(subject, words, cache, built) ==
    [kind |-> "return", text |-> subject \o "\n" \o str_join(" ", words),
     exc |-> "", cache |-> cache, built |-> built]

FormatRaises(exc, cache, built) ==
    [kind |-> "raise", text |-> "", exc |-> exc, cache |-> cache,
     built |-> built]

\* Miner_0._format_response: the set of its possible results, each with the
\* phrase cache it leaves behind
_format_response(cache, response, criteria, target_length) ==
    LET scan    == ScanLines(str_split(response, "\n"), None, <<>>)
        subject == IF Truthy(scan.subject) THEN Val(scan.subject)
                   ELSE "\"" \o str_split(scan.content[1], ".")[1] \o "\""
        words   == str_split_ws(str_join(" ", scan.content))
    IN  IF Len(words) > target_length
        THEN {Formatted(subject, TrimWords(words, target_length), cache, {})}
        ELSE IF Len(words) < target_length
        THEN IF "field" \notin DOMAIN criteria
             THEN {FormatRaises("KeyError: 'field'", cache, {})}
             ELSE LET got == _get_field_phrases(cache, criteria["field"])
                  IN  IF "target_audience" \notin DOMAIN criteria
                      THEN {FormatRaises("KeyError: 'target_audience'",
                                         got.cache, got.built)}
                      ELSE { Formatted(subject, w, got.cache, got.built) :
                               w \in Pad(words, target_length, got.phrases,
                                         _get_audience_appropriate_terms(
                                             criteria["target_audience"])) }
        ELSE {Formatted(subject, words, cache, {})}

\* self.explanation_types of Miner_0
explanation_types ==
    << "causal", "by example", "analogies", "heuristic", "inductive",
       "deductive", "functional", "teleological", "historical",
       "reductionist", "storytelling", "from first principles" >>

\* style_map.get(subject_type, self.explanation_types)
style_map(subject_type) ==
    CASE subject_type = "phenomena" ->
            <<"causal", "by example", "analogies">>
      [] subject_type = "process" ->
            <<"functional", "by example", "storytelling">>
      [] subject_type = "principles" ->
            <<"from first principles", "deductive", "inductive">>
      [] subject_type = "concepts" ->
            <<"analogies", "by example", "reductionist">>
      [] subject_type = "methods" ->
            <<"functional", "by example", "heuristic">>
      [] subject_type = "systems" ->
            <<"functional", "reductionist", "teleological">>
      [] subject_type = "theories" ->
            <<"from first principles", "deductive", "historical">>
      [] subject_type = "patterns" ->
            <<"inductive", "by example", "analogies">>
      [] subject_type = "trends" ->
            <<"historical", "inductive", "causal">>
      [] OTHER -> explanation_types

\* random.choice(seq) for the number r the random source hands out
Draw(seq, r) == seq[(r % Len(seq)) + 1]

\* the labels forward reads, in the order it reads them
ForwardLabels ==
    << "field", "subject_type", "target_audience", "subject_type",
       "abstraction", "target_audience", "subject_type", "detail",
       "target_audience", "field", "specificity", "field" >>

\* the first label forward reads that the criteria map lacks, None if none
FirstMissing(criteria) ==
    LET miss == { k \in 1..Len(ForwardLabels) :
                     ForwardLabels[k] \notin DOMAIN criteria }
    IN  IF miss = {} THEN None
        ELSE Str(ForwardLabels[CHOOSE k \in miss : \A j \in miss : k <= j])

\* the f-string of forward; the random source hands out seed, seed + 1, ...
\* to the successive random.choice calls
ForwardText(criteria, sample_subject, intro_phrase, explanation_style, audience_terms, seed) ==
    "\"" \o sample_subject \o "\"\n\n"
    \o intro_phrase \o " " \o sample_subject \o " represents a "
    \o Draw(audience_terms, seed + 2) \o " " \o criteria["subject_type"]
    \o " \nthat demands rigorous analysis. Using a " \o explanation_style
    \o " approach at a " \o criteria["abstraction"]
    \o " \nlevel of abstraction calibrated for "
    \o criteria["target_audience"]
    \o ", we can systematically deconstruct \nthis phenomenon.\n\nThe "
    \o criteria["subject_type"] \o " characteristics of " \o sample_subject
    \o " emerge through " \o Draw(audience_terms, seed + 3)
    \o " \nexamination of its foundational principles. With "
    \o criteria["detail"]
    \o " granularity, we observe that this concept \nencompasses multiple"
    \o " interconnected dimensions particularly "
    \o Draw(audience_terms, seed + 4) \o " to "
    \o criteria["target_audience"] \o " \nin their investigation of "
    \o criteria["field"] \o ".\n\nThis " \o criteria["specificity"]
    \o " analysis yields " \o Draw(audience_terms, seed + 5)
    \o " insights while maintaining optimal \naccessibility for the target"
    \o " demographic, ensuring both " \o Draw(audience_terms, seed + 6)
    \o " precision and practical \napplicability. The implications extend"
    \o " across various domains within " \o criteria["field"]
    \o ", highlighting the concept's \n" \o Draw(audience_terms, seed + 7)
    \o " significance."

ForwardResult(text, cache, built) ==
    [text |-> text, cache |-> cache, built |-> built]

\* Miner_0.forward for one seed of the random source: the set of its possible
\* results; any exception makes it return ""
forward(cache, criteria, sample_subject, sample_length, seed) ==
    IF "field" \notin DOMAIN criteria THEN {ForwardResult("", cache, {})}
    ELSE LET got == _get_field_phrases(cache, criteria["field"])
         IN  IF FirstMissing(criteria) # None
             THEN {ForwardResult("", got.cache, got.built)}
             ELSE LET response ==
                          ForwardText(criteria, sample_subject,
                              Draw(got.phrases, seed),
                              Draw(style_map(criteria["subject_type"]),
                                   seed + 1),
                              _get_audience_appropriate_terms(
                                  criteria["target_audience"]),
                              seed)
                  IN  { ForwardResult(IF r.kind = "return" THEN r.text
                                      ELSE "",
                                      r.cache, got.built \cup r.built) :
                          r \in _format_response(got.cache, response,
                                                 criteria, sample_length) }

\* raw answers handed to _format_response
RawAnswers ==
    { "", "\"Cats\"", "Cats purr.", "Cats purr. They\nsleep a lot.",
      "On \"Cats\" here\nCats  purr loudly at night.",
      "Say \"hi\nto \"Tom\" now." }

\* criteria maps: complete ones and ones that lack a label
CriteriaMaps ==
    { [l \in {"field", "target_audience"} |->
          IF l = "field" THEN "Biology" ELSE "expert scientist"],
      [l \in {"field", "target_audience"} |->
          IF l = "field" THEN "Quantum Physics" ELSE "child"],
      [l \in {"field"} |-> "Biology"],
      [l \in {"target_audience"} |-> "hobbyist"] }

(***************************************************************************)
(* The state machine: one adapter instance serving requests.               *)
(***************************************************************************)
Init ==
    /\ cls = "none"
    /\ settings_model = ""
    /\ ctor = "none"
    /\ pc = "idle"
    /\ req_prompt = ""
    /\ backend = [kind |-> "none"]
    /\ calls = 0
    /\ outcome = NoOutcome
    /\ result = NoResult
    /\ model_result = NoModel
    /\ field_phrases = <<>>
    /\ fmt_in = <<>>
    /\ fmt_out = <<>>
    /\ ext_in = <<>>
    /\ ext_out = <<>>
    /\ fwd_in = <<>>
    /\ fwd_out = <<>>
    /\ got_in = <<>>
    /\ got_out = <<>>
    /\ builds = <<>>
    /\ thr = <<>>

\* a constructor without the module_map check
Accepts_any(c, model) == TRUE

\* OpenrouterModule.__init__ rejects a model that module_map lacks
Accepts(c, model) == c # "OpenrouterModule" \/ model \in DOMAIN module_map

\* __init__ of the chosen class with the chosen settings.model
Construct(c, model) ==
    /\ ctor = "none"
    /\ cls' = c
    /\ settings_model' = model
    /\ ctor' = IF Accepts(c, model) THEN "ok" ELSE "ValueError"
    /\ UNCHANGED <<pc, req_prompt, backend, calls, outcome, result,
                   model_result, field_phrases, fmt_in, fmt_out,
                   ext_vars, fwd_vars, phrase_vars>>

\* generate is entered and prompt issues its backend call
GenerateCall(user_prompt) ==
    /\ ctor = "ok"
    /\ pc \in {"idle", "done"}
    /\ pc' = "waiting"
    /\ req_prompt' = user_prompt
    /\ backend' = [kind |-> "none"]
    /\ calls' = 1
    /\ outcome' = NoOutcome
    /\ result' = NoResult
    /\ UNCHANGED <<cls, settings_model, ctor, model_result, field_phrases,
                   fmt_in, fmt_out,
                   ext_vars, fwd_vars, phrase_vars>>

\* the backend call returns or raises; prompt and generate run to their end
GenerateReturn(ev) ==
    /\ pc = "waiting"
    /\ ev \in BackendEvents(cls)
    /\ backend' = ev
    /\ outcome' = Prompt(cls, settings_model, req_prompt, ev)
    /\ result' = generate(outcome')
    /\ pc' = "done"
    /\ UNCHANGED <<cls, settings_model, ctor, req_prompt, calls,
                   model_result, field_phrases, fmt_in, fmt_out,
                   ext_vars, fwd_vars, phrase_vars>>

GetModel ==
    /\ ctor = "ok"
    /\ model_result' = get_model(cls, settings_model)
    /\ UNCHANGED <<cls, settings_model, ctor, pc, req_prompt, backend, calls,
                   outcome, result, field_phrases, fmt_in, fmt_out,
                   ext_vars, fwd_vars, phrase_vars>>

Next ==
    \/ \E c \in Classes, m \in ModelIds : Construct(c, m)
    \/ \E p \in UserPrompts : GenerateCall(p)
    \/ \E ev \in AnthropicEvents \cup OpenAIEvents \cup OpenrouterEvents :
          GenerateReturn(ev)
    \/ GetModel

Spec == Init /\ [][Next]_vars

(***************************************************************************)
(* Requests with the timers of the clients.  The Anthropic and OpenAI      *)
(* clients are built with their default request timeout; requests.post in  *)
(* OpenrouterModule.prompt is called without timeout argument and waits    *)
(* for as long as the backend stays silent.  Whether a backend answers is  *)
(* up to the backend, so only the timer is fair.                           *)
(***************************************************************************)
HasClientTimeout(c) == c # "OpenrouterModule"

TimeoutError ==
    [type |-> "APITimeoutError", msg |-> "Request timed out.",
     status_code |-> None]

\* the timer of the client fires and the blocked call raises
ClientTimeout ==
    /\ pc = "waiting"
    /\ HasClientTimeout(cls)
    /\ backend' = [kind |-> "raise", exc |-> TimeoutError]
    /\ outcome' = Prompt(cls, settings_model, req_prompt, backend')
    /\ result' = generate(outcome')
    /\ pc' = "done"
    /\ UNCHANGED <<cls, settings_model, ctor, req_prompt, calls,
                   model_result, field_phrases, fmt_in, fmt_out,
                   ext_vars, fwd_vars, phrase_vars>>

LiveNext == Next \/ ClientTimeout

LiveSpec == Init /\ [][LiveNext]_vars /\ WF_vars(ClientTimeout)

(***************************************************************************)
(* The shaper on its own: a constructed Miner_0 whose _format_response is  *)
(* called with every raw answer, criteria map and target length.           *)
(***************************************************************************)
ShaperInit ==
    /\ cls = "Miner_0"
    /\ settings_model = "claude-3-5-sonnet-20240620"
    /\ ctor = "ok"
    /\ pc = "idle"
    /\ req_prompt = ""
    /\ backend = [kind |-> "none"]
    /\ calls = 0
    /\ outcome = NoOutcome
    /\ result = NoResult
    /\ model_result = NoModel
    /\ field_phrases = <<>>
    /\ fmt_in = <<>>
    /\ fmt_out = <<>>
    /\ ext_in = <<>>
    /\ ext_out = <<>>
    /\ fwd_in = <<>>
    /\ fwd_out = <<>>
    /\ got_in = <<>>
    /\ got_out = <<>>
    /\ builds = <<>>
    /\ thr = <<>>

\* builds counts, per field, how many times a phrase list was built
Bump(b, fields) ==
    [f \in DOMAIN b \cup fields |->
        (IF f \in DOMAIN b THEN b[f] ELSE 0) + (IF f \in fields THEN 1 ELSE 0)]

\* one call of _format_response; fmt_in and fmt_out hold the latest call of
\* the instance when it was one of _format_response
FormatResponse(response, criteria, target_length) ==
    /\ cls = "Miner_0"
    /\ ctor = "ok"
    /\ \E r \in _format_response(field_phrases, response, criteria,
                                 target_length) :
          /\ fmt_out' = <<[kind |-> r.kind, text |-> r.text, exc |-> r.exc]>>
          /\ field_phrases' = r.cache
          /\ builds' = Bump(builds, r.built)
    /\ fmt_in' = <<[response |-> response, criteria |-> criteria,
                    target_length |-> target_length]>>
    /\ fwd_in' = <<>>
    /\ fwd_out' = <<>>
    /\ got_in' = <<>>
    /\ got_out' = <<>>
    /\ UNCHANGED <<cls, settings_model, ctor, pc, req_prompt, backend, calls,
                   outcome, result, model_result, ext_vars, thr>>

ShaperNext ==
    \E response \in RawAnswers, criteria \in CriteriaMaps,
       target_length \in 0..MaxTarget :
        FormatResponse(response, criteria, target_length)

ShaperSpec == ShaperInit /\ [][ShaperNext]_vars

(***************************************************************************)
(* One Miner_0 instance called in any order through _get_field_phrases,    *)
(* forward and _format_response.                                           *)
(***************************************************************************)
\* the labels forward reads
ForwardLabelSet ==
    {"field", "subject_type", "target_audience", "abstraction", "detail",
     "specificity"}

FullCriteria(field, audience) ==
    [l \in ForwardLabelSet |->
        CASE l = "field" -> field
          [] l = "subject_type" -> "process"
          [] l = "target_audience" -> audience
          [] l = "abstraction" -> "high"
          [] l = "detail" -> "fine"
          [] l = "specificity" -> "broad"]

Without(criteria, label) ==
    [l \in DOMAIN criteria \ {label} |-> criteria[l]]

\* a complete criteria map and ones that lack a label
ForwardCriteria ==
    { FullCriteria("Biology", "expert scientist"),
      Without(FullCriteria("Biology", "child"), "field"),
      Without(FullCriteria("Biology", "child"), "target_audience"),
      Without(FullCriteria("Quantum Physics", "hobbyist"), "specificity") }

SampleSubjects == {"Cats", "Dark matter"}

PhraseFields == {"Biology", "Quantum Physics"}

\* the raw answers of the _format_response calls
PhraseAnswers == {"Cats"}

\* one call of forward
Forward(criteria, sample_subject, sample_length) ==
    /\ cls = "Miner_0"
    /\ ctor = "ok"
    /\ \E seed \in 0..MaxSeed :
          \E r \in forward(field_phrases, criteria, sample_subject,
                           sample_length, seed) :
             /\ fwd_out' = <<r.text>>
             /\ field_phrases' = r.cache
             /\ builds' = Bump(builds, r.built)
    /\ fwd_in' = <<[criteria |-> criteria, sample_subject |-> sample_subject,
                    sample_length |-> sample_length]>>
    /\ fmt_in' = <<>>
    /\ fmt_out' = <<>>
    /\ got_in' = <<>>
    /\ got_out' = <<>>
    /\ UNCHANGED <<cls, settings_model, ctor, pc, req_prompt, backend, calls,
                   outcome, result, model_result, ext_vars, thr>>

\* one call of _get_field_phrases; got_in records the field and whether the
\* cache held it when the call began
GetFieldPhrases(field) ==
    /\ cls = "Miner_0"
    /\ ctor = "ok"
    /\ LET got == _get_field_phrases(field_phrases, field)
       IN  /\ got_out' = <<got.phrases>>
           /\ field_phrases' = got.cache
           /\ builds' = Bump(builds, got.built)
    /\ got_in' = <<[field |-> field,
                    cached |-> field \in DOMAIN field_phrases]>>
    /\ fmt_in' = <<>>
    /\ fmt_out' = <<>>
    /\ fwd_in' = <<>>
    /\ fwd_out' = <<>>
    /\ UNCHANGED <<cls, settings_model, ctor, pc, req_prompt, backend, calls,
                   outcome, result, model_result, ext_vars, thr>>

PhraseNext ==
    \/ \E field \in PhraseFields : GetFieldPhrases(field)
    \/ \E criteria \in ForwardCriteria, sample_subject \in SampleSubjects,
          sample_length \in 0..MaxTarget :
           Forward(criteria, sample_subject, sample_length)
    \/ \E response \in PhraseAnswers, criteria \in CriteriaMaps,
          target_length \in 0..MaxTarget :
           FormatResponse(response, criteria, target_length)

PhraseSpec == ShaperInit /\ [][PhraseNext]_vars

(***************************************************************************)
(* Threads that call _get_field_phrases on one Miner_0 instance.  A thread *)
(* can be switched out between the membership test, the store and the      *)
(* final read; thr holds each thread's position, field and returned list.  *)
(***************************************************************************)
Threads == 1..MaxThreads

IdleThread == [pc |-> "idle", field |-> "", ret |-> None]

RaceInit ==
    /\ cls = "Miner_0"
    /\ settings_model = "claude-3-5-sonnet-20240620"
    /\ ctor = "ok"
    /\ pc = "idle"
    /\ req_prompt = ""
    /\ backend = [kind |-> "none"]
    /\ calls = 0
    /\ outcome = NoOutcome
    /\ result = NoResult
    /\ model_result = NoModel
    /\ field_phrases = <<>>
    /\ fmt_in = <<>>
    /\ fmt_out = <<>>
    /\ ext_in = <<>>
    /\ ext_out = <<>>
    /\ fwd_in = <<>>
    /\ fwd_out = <<>>
    /\ got_in = <<>>
    /\ got_out = <<>>
    /\ builds = <<>>
    /\ thr = [t \in Threads |-> IdleThread]

\* what a step of a thread leaves alone besides thr and the cache
RaceUnchanged ==
    UNCHANGED <<cls, settings_model, ctor, pc, req_prompt, backend, calls,
                outcome, result, model_result, fmt_in, fmt_out, ext_vars,
                fwd_vars, got_vars>>

\* thread t enters _get_field_phrases(field)
RaceCall(t, field) ==
    /\ thr[t].pc \in {"idle", "done"}
    /\ thr' = [thr EXCEPT ![t] = [pc |-> "test", field |-> field,
                                  ret |-> None]]
    /\ UNCHANGED <<field_phrases, builds>>
    /\ RaceUnchanged

\* if field not in self.field_phrases
RaceTest(t) ==
    /\ thr[t].pc = "test"
    /\ thr' = [thr EXCEPT ![t].pc =
                  IF thr[t].field \notin DOMAIN field_phrases THEN "store"
                  ELSE "read"]
    /\ UNCHANGED <<field_phrases, builds>>
    /\ RaceUnchanged

\* base_phrases is built and stored under the field
RaceStore(t) ==
    /\ thr[t].pc = "store"
    /\ field_phrases' = CachePut(field_phrases, thr[t].field,
                                 base_phrases(thr[t].field))
    /\ builds' = Bump(builds, {thr[t].field})
    /\ thr' = [thr EXCEPT ![t].pc = "read"]
    /\ RaceUnchanged

\* return self.field_phrases[field]
RaceReturn(t) ==
    /\ thr[t].pc = "read"
    /\ thr' = [thr EXCEPT ![t].pc = "done",
                          ![t].ret = Str(field_phrases[thr[t].field])]
    /\ UNCHANGED <<field_phrases, builds>>
    /\ RaceUnchanged

RaceNext ==
    \E t \in Threads :
       \/ \E field \in PhraseFields : RaceCall(t, field)
       \/ RaceTest(t)
       \/ RaceStore(t)
       \/ RaceReturn(t)

RaceSpec == RaceInit /\ [][RaceNext]_vars

(***************************************************************************)
(* _extract_field on its own: an AnthropicModule whose _extract_field is   *)
(* called with texts made of two clauses.                                  *)
(***************************************************************************)
FieldClauses ==
    { "regarding quantum physics.", "about biology,",
      "in the domain of chemistry.", "In the Field of modern art!",
      "Regarding, ", "concerning x.", "related to music?",
      "in terms of cost", "with respect to time (UTC)", "what is it",
      "roundabout." }

FieldTexts == { a \o " " \o b : a \in FieldClauses, b \in FieldClauses }

FieldInit ==
    /\ cls = "AnthropicModule"
    /\ settings_model = "claude-3-5-sonnet-20240620"
    /\ ctor = "ok"
    /\ pc = "idle"
    /\ req_prompt = ""
    /\ backend = [kind |-> "none"]
    /\ calls = 0
    /\ outcome = NoOutcome
    /\ result = NoResult
    /\ model_result = NoModel
    /\ field_phrases = <<>>
    /\ fmt_in = <<>>
    /\ fmt_out = <<>>
    /\ ext_in = <<>>
    /\ ext_out = <<>>
    /\ fwd_in = <<>>
    /\ fwd_out = <<>>
    /\ got_in = <<>>
    /\ got_out = <<>>
    /\ builds = <<>>
    /\ thr = <<>>

ExtractField(text) ==
    /\ cls \in {"AnthropicModule", "OpenAIModule"}
    /\ ctor = "ok"
    /\ ext_in' = <<text>>
    /\ ext_out' = <<_extract_field(text)>>
    /\ UNCHANGED <<cls, settings_model, ctor, pc, req_prompt, backend, calls,
                   outcome, result, model_result, field_phrases, fmt_in,
                   fmt_out, fwd_vars, phrase_vars>>

FieldNext == \E text \in FieldTexts : ExtractField(text)

FieldSpec == FieldInit /\ [][FieldNext]_vars

(***************************************************************************)
(* Properties of the adapters.                                             *)
(***************************************************************************)
Done == pc = "done"

\* the natural-end signal of each backend
NaturalEnd(c) ==
    IF c \in AnthropicBased THEN "end_turn"
    ELSE IF c = "OpenAIModule" THEN "stop"
    ELSE "end_turn"

\* the stop reason a completion reports
StopReasonOf(c, ev) ==
    IF c \in AnthropicBased THEN ev.stop_reason ELSE ev.finish_reason

\* the backend answered with a completion
IsCompletion(c, ev) ==
    IF c \in AnthropicBased THEN ev.kind = "message"
    ELSE IF c = "OpenAIModule" THEN ev.kind = "completion"
    ELSE ev.kind = "json" /\ ev.error = None /\ ev.choices

\* the completion did not end naturally
NonNormalStop(c, ev) ==
    /\ IsCompletion(c, ev)
    /\ \/ StopReasonOf(c, ev) # NaturalEnd(c)
       \/ c \in AnthropicBased /\ ev.stop_sequence # None

\* the completion ended naturally
NormalStop(c, ev) == IsCompletion(c, ev) /\ ~NonNormalStop(c, ev)

\* C1: for every adapter, a completion whose stop condition is not the
\* natural end makes prompt return an outcome whose answer is None and makes
\* generate fail; it is never returned as {"answer": ...}.
C1_NonNormalStopIsError ==
    (Done /\ NonNormalStop(cls, backend)) =>
        /\ outcome.kind = "return"
        /\ outcome.answer = None
        /\ result.kind = "HTTPException"

\* C2: for every adapter and call, prompt returns (answer, "") exactly when
\* the backend returned a natural-end completion and (None, message) when
\* the backend call failed, the client call throwing included; generate
\* answers on backend success and fails on backend failure.
C2_ExactlyOneMeaningful ==
    Done =>
        /\ outcome.kind = "return"
        /\ NormalStop(cls, backend) <=>
              (outcome.answer # None /\ outcome.error = Str(""))
        /\ ~NormalStop(cls, backend) =>
              (outcome.answer = None /\ Truthy(outcome.error))
        /\ NormalStop(cls, backend) <=> result.kind = "answer"
        /\ ~NormalStop(cls, backend) <=> result.kind = "HTTPException"

\* C3: generate maps every outcome of prompt to one result: an exception e
\* to a failure with e.status_code when e has one and 500 otherwise, with
\* detail str(e); (None, message) to a failure with status 500 and detail
\* message; anything else to {"answer": answer}.
C3_GenerateMapping ==
    Done =>
        /\ result.kind \in {"answer", "HTTPException"}
        /\ outcome.kind = "raise" =>
              /\ result.kind = "HTTPException"
              /\ result.detail = Str(outcome.exc.msg)
              /\ outcome.exc.status_code # None =>
                    result.status_code = Val(outcome.exc.status_code)
              /\ outcome.exc.status_code = None => result.status_code = 500
        /\ (outcome.kind = "return" /\ outcome.answer = None) =>
              /\ result.kind = "HTTPException"
              /\ result.status_code = 500
              /\ result.detail = outcome.error
        /\ (outcome.kind = "return" /\ outcome.answer # None) =>
              /\ result.kind = "answer"
              /\ result.answer = outcome.answer
              /\ result.status_code = 200

\* an exception carrying status 429 has been mapped to a 429 failure
C3_Witness ==
    /\ Done
    /\ outcome.kind = "raise"
    /\ outcome.exc.status_code = <<429>>
    /\ result.kind = "HTTPException"
    /\ result.status_code = 429

\* prompt took the branch that rejects a completion for its stop condition;
\* OpenAIModule.prompt has no such branch
StopRejected(c, ev) ==
    IF c \in AnthropicBased
    THEN ev.kind = "message"
         /\ (ev.stop_sequence # None \/ ev.stop_reason # "end_turn")
    ELSE IF c = "OpenrouterModule"
    THEN /\ ev.kind = "json"
         /\ ~(ev.error # None /\ Val(ev.error) = 402)
         /\ ev.choices
         /\ ev.finish_reason # "end_turn"
    ELSE FALSE

\* C4 as stated: every adapter reports a completion rejected for the stop
\* condition X as "Could not generate an answer. Stop reason X".
C4_Original ==
    (Done /\ StopRejected(cls, backend)) =>
        outcome.error =
            Str("Could not generate an answer. Stop reason "
                \o StopReasonOf(cls, backend))

\* C4: AnthropicModule and BaseMiner report a completion rejected for the
\* stop condition X as "Could not generate an answer. Stop reason X";
\* OpenrouterModule reports it as "Could not get a complete answer: X".
C4_StopMessagePerAdapter ==
    (Done /\ StopRejected(cls, backend)) =>
        /\ outcome.kind = "return"
        /\ outcome.answer = None
        /\ cls \in AnthropicBased =>
              outcome.error =
                  Str("Could not generate an answer. Stop reason "
                      \o backend.stop_reason)
        /\ cls = "OpenrouterModule" =>
              outcome.error =
                  Str("Could not get a complete answer: "
                      \o backend.finish_reason)

\* a direct adapter has rejected a completion cut at the token limit
C4_Witness ==
    /\ Done
    /\ cls = "AnthropicModule"
    /\ StopRejected(cls, backend)
    /\ backend.stop_reason = "max_tokens"
    /\ outcome.error =
          Str("Could not generate an answer. Stop reason max_tokens")

\* C5: with OpenrouterModule, an error envelope with code 402 makes prompt
\* return (None, "Insufficient credits") without raising and generate fail
\* with that detail, whatever else the body holds.
C5_InsufficientCredits ==
    (Done /\ cls = "OpenrouterModule" /\ backend.kind = "json"
          /\ backend.error = <<402>>) =>
        /\ outcome = Ret(None, Str("Insufficient credits"))
        /\ result.kind = "HTTPException"
        /\ result.status_code # 200
        /\ result.detail = Str("Insufficient credits")

\* the 402 envelope came in a body without "choices"
C5_Witness ==
    /\ Done
    /\ cls = "OpenrouterModule"
    /\ backend.kind = "json"
    /\ backend.error = <<402>>
    /\ ~backend.choices
    /\ result.kind = "HTTPException"
    /\ result.detail = Str("Insufficient credits")

\* C6: with OpenrouterModule configured for "anthropic/claude-3.5-sonnet",
\* a body without error envelope reporting a natural-end completion with
\* content c makes generate return {"answer": c}, c unmodified.
C6_NormalEndAnswer ==
    (Done /\ cls = "OpenrouterModule"
          /\ settings_model = "anthropic/claude-3.5-sonnet"
          /\ backend.kind = "json" /\ backend.error = None
          /\ backend.choices /\ backend.finish_reason = "end_turn") =>
        /\ result.kind = "answer"
        /\ result.status_code = 200
        /\ result.answer = backend.content

\* "What is 2+2?" has been answered with "4"
C6_Witness ==
    /\ Done
    /\ cls = "OpenrouterModule"
    /\ settings_model = "anthropic/claude-3.5-sonnet"
    /\ req_prompt = "What is 2+2?"
    /\ backend.kind = "json"
    /\ backend.error = None
    /\ backend.choices
    /\ backend.finish_reason = "end_turn"
    /\ backend.content = Str("4")
    /\ result.kind = "answer"
    /\ result.answer = Str("4")

\* C7: AnthropicModule.prompt turns every completion with stop_reason
\* "end_turn" and no stop sequence into (answer, "") where answer is the
\* in-order concatenation of the text of the content blocks, whatever the
\* prompt and the response say.
C7_AnswerIsConcatenation ==
    (Done /\ cls = "AnthropicModule" /\ backend.kind = "message"
          /\ backend.stop_reason = "end_turn"
          /\ backend.stop_sequence = None) =>
        /\ outcome.kind = "return"
        /\ outcome.answer = Str(JoinBlocks(backend.content))
        /\ outcome.error = Str("")

\* C8: constructing OpenrouterModule succeeds exactly when settings.model is
\* a key of module_map ("gpt-4" fails), so on a constructed instance the
\* lookup of model and prompt never fails, and
\* "claude-3-5-sonnet-20240620" resolves to "anthropic/claude-3.5-sonnet".
C8_ConstructionGuardsLookup ==
    (cls = "OpenrouterModule" /\ ctor # "none") =>
        /\ ctor = "ok" <=> settings_model \in DOMAIN module_map
        /\ settings_model = "gpt-4" => ctor = "ValueError"
        /\ ctor = "ok" =>
              /\ module_name_mapping(settings_model).ok
              /\ model_result.model.type # "KeyError"
              /\ ~(outcome.kind = "raise" /\ outcome.exc.type = "KeyError"
                   /\ outcome.exc.msg # "'choices'")
              /\ (settings_model = "claude-3-5-sonnet-20240620"
                  /\ model_result # NoModel) =>
                    model_result.model.value = "anthropic/claude-3.5-sonnet"

\* a constructed OpenrouterModule has served a request and resolved
\* "claude-3-5-sonnet-20240620"
C8_Witness ==
    /\ cls = "OpenrouterModule"
    /\ ctor = "ok"
    /\ settings_model = "claude-3-5-sonnet-20240620"
    /\ Done
    /\ outcome.kind = "return"
    /\ model_result.model.value = "anthropic/claude-3.5-sonnet"

\* the effective model identifier of an adapter
EffectiveModel(c, model) ==
    IF c = "OpenrouterModule" THEN module_map[model] ELSE model

\* C9: for every adapter get_model returns {"model": m} where m is the text
\* of the effective model identifier.
C9_GetModelIsText ==
    model_result # NoModel =>
        /\ model_result.model.type = "str"
        /\ model_result.model.value = EffectiveModel(cls, settings_model)

\* C13: every generate call eventually completes with an answer or an
\* error: a silent backend is cut off by the timeout of the client and no
\* request stays pending forever.
C13_EveryCallCompletes == (pc = "waiting") ~> (pc = "done")

\* the backend call of a request failed: it raised, reported insufficient
\* credits, or returned a completion that did not end naturally
BackendFailed(c, ev) ==
    \/ ev.kind = "raise"
    \/ c = "OpenrouterModule" /\ ev.kind = "json" /\ ev.error = <<402>>
    \/ NonNormalStop(c, ev)

\* C17: each generate invocation issues at most one backend call, and when
\* that call fails (exception, insufficient credits, non-normal stop) the
\* error is surfaced to the caller at once, without a second backend call.
C17_NoRetry ==
    /\ calls <= 1
    /\ (Done /\ BackendFailed(cls, backend)) =>
          (calls = 1 /\ result.kind = "HTTPException")

(***************************************************************************)
(* Properties of the shaper.                                               *)
(***************************************************************************)
\* the body of a shaped text: what follows the first newline
Body(text) == Slice(text, str_find(text, "\n", 0) + 1, Len(text))

Shaped == fmt_out # <<>> /\ fmt_out[1].kind = "return"

\* C10: for every input text and target_length >= 0 the body produced by
\* _format_response has exactly target_length whitespace-separated words,
\* padding with phrase-bank entries included.
C10_ExactWordCount ==
    Shaped =>
        Len(str_split_ws(Body(fmt_out[1].text))) = fmt_in[1].target_length

\* the words of the body text of a raw answer: the lines that did not supply
\* the subject, joined and split on whitespace
BodyWords(response) ==
    str_split_ws(str_join(" ",
        ScanLines(str_split(response, "\n"), None, <<>>).content))

\* C11: whenever target_length n is at most the number of words of the body
\* text, the normalized body is the first n words of that text, verbatim and
\* in order, without filler and without reading a criteria label.
C11_TruncationIsPrefix ==
    (fmt_in # <<>>
       /\ fmt_in[1].target_length <= Len(BodyWords(fmt_in[1].response))) =>
        /\ fmt_out[1].kind = "return"
        /\ str_split_ws(Body(fmt_out[1].text)) =
              SubSeq(BodyWords(fmt_in[1].response), 1,
                     fmt_in[1].target_length)
        /\ Body(fmt_out[1].text) =
              str_join(" ", SubSeq(BodyWords(fmt_in[1].response), 1,
                                   fmt_in[1].target_length))

\* a five-word body has been cut to its first two words under a criteria
\* map that has no field label
C11_Witness ==
    /\ fmt_in # <<>>
    /\ fmt_in[1].response = "On \"Cats\" here\nCats  purr loudly at night."
    /\ fmt_in[1].target_length = 2
    /\ "field" \notin DOMAIN fmt_in[1].criteria
    /\ fmt_out[1].kind = "return"
    /\ Body(fmt_out[1].text) = "Cats purr"

\* a criteria map that lacks a label its call reads
LacksFormatLabel(criteria) ==
    {"field", "target_audience"} \ DOMAIN criteria # {}

LacksForwardLabel(criteria) == ForwardLabelSet \ DOMAIN criteria # {}

\* a text made of a subject line and a body
SubjectAndBody(text) == str_find(text, "\n", 0) > 0

\* C14: when the criteria map lacks a label, forward and _format_response
\* still return a shaped response, a subject line and a body, and neither
\* raise nor return an empty result.
C14_MissingLabelStillShaped ==
    /\ (fmt_in # <<>> /\ LacksFormatLabel(fmt_in[1].criteria)) =>
          /\ fmt_out[1].kind = "return"
          /\ SubjectAndBody(fmt_out[1].text)
    /\ (fwd_in # <<>> /\ LacksForwardLabel(fwd_in[1].criteria)) =>
          SubjectAndBody(fwd_out[1])

\* a list of ten distinct phrases that each name the field
TenPhrasesOf(field, phrases) ==
    /\ Len(phrases) = 10
    /\ \A k \in 1..10 : str_contains(field, phrases[k])
    /\ \A j, k \in 1..10 : phrases[j] = phrases[k] => j = k

\* no step rebuilds or replaces the entry of a field the cache holds, and a
\* step that inserts a field builds its list once
CacheKept ==
    /\ \A f \in DOMAIN field_phrases :
          /\ f \in DOMAIN field_phrases'
          /\ field_phrases'[f] = field_phrases[f]
          /\ builds'[f] = builds[f]
    /\ \A f \in DOMAIN field_phrases' \ DOMAIN field_phrases :
          builds'[f] = 1

\* C15: within one Miner_0 instance, over any sequence of _get_field_phrases,
\* forward and _format_response calls, the phrase list of a field is built
\* at most once: the first call for the field inserts ten field-parameterized
\* phrases and every later call returns that cached list without rebuilding
\* or replacing the entry.
C15_BuiltAtMostOnce ==
    /\ [](/\ DOMAIN builds = DOMAIN field_phrases
          /\ \A f \in DOMAIN field_phrases :
                /\ builds[f] <= 1
                /\ TenPhrasesOf(f, field_phrases[f])
          /\ got_in # <<>> =>
                /\ got_in[1].field \in DOMAIN field_phrases
                /\ got_out[1] = field_phrases[got_in[1].field])
    /\ [][CacheKept]_vars

\* _get_field_phrases has been called for a field the cache already held and
\* has returned the list built by the earlier call
C15_Witness ==
    /\ got_in # <<>>
    /\ got_in[1].cached
    /\ builds[got_in[1].field] = 1
    /\ got_out[1] = field_phrases[got_in[1].field]
    /\ Len(got_out[1]) = 10

\* C16: under any interleaving of concurrent _get_field_phrases calls on one
\* instance the cache is append-only and deterministic per key: a key once
\* present is never removed, the value stored for a field is always the ten
\* phrases derived from it, racing inserts of one key leave the cache as a
\* single insert does, and the callers of one field receive equal lists.
C16_CacheAppendOnlyDeterministic ==
    /\ [](/\ field_phrases =
                [f \in DOMAIN field_phrases |-> base_phrases(f)]
          /\ \A f \in DOMAIN field_phrases :
                TenPhrasesOf(f, field_phrases[f])
          /\ \A t, u \in Threads :
                (thr[t].pc = "done" /\ thr[u].pc = "done"
                   /\ thr[t].field = thr[u].field) =>
                    thr[t].ret = thr[u].ret
          /\ \A t \in Threads :
                thr[t].pc = "done" =>
                    thr[t].ret = Str(base_phrases(thr[t].field)))
    /\ [][DOMAIN field_phrases \subseteq DOMAIN field_phrases']_vars

\* two threads both missed the same field, both stored its list, and both
\* have returned
C16_Witness ==
    \E t, u \in Threads :
       /\ t # u
       /\ thr[t].pc = "done"
       /\ thr[u].pc = "done"
       /\ thr[t].field = thr[u].field
       /\ thr[t].field \in DOMAIN builds
       /\ builds[thr[t].field] = 2
       /\ thr[t].ret = thr[u].ret
       /\ field_phrases[thr[t].field] = Val(thr[t].ret)

\* the number of newlines of a text
Newlines(text) == Len(str_split(text, "\n")) - 1

\* the index of the quote that closes the first quote of a line, -1 when
\* the line has no quote or does not close it
ClosingQuote(line) ==
    IF str_find(line, "\"", 0) = -1 THEN -1
    ELSE str_find(line, "\"", str_find(line, "\"", 0) + 1)

\* the lines of a raw answer that hold a closed quoted span
QuotedLines(response) ==
    LET lines == str_split(response, "\n")
    IN  { k \in 1..Len(lines) : ClosingQuote(lines[k]) # -1 }

\* the first line that holds a closed quoted span, 0 when there is none
SubjectLine(response) ==
    IF QuotedLines(response) = {} THEN 0
    ELSE CHOOSE k \in QuotedLines(response) :
            \A j \in QuotedLines(response) : k <= j

\* the subject the claim describes: the first closed quoted span, quotes
\* included, else the first line up to its first "." wrapped in quotes
ClaimedSubject(response) ==
    LET lines == str_split(response, "\n")
        k     == SubjectLine(response)
    IN  IF k # 0
        THEN Slice(lines[k], str_find(lines[k], "\"", 0),
                   ClosingQuote(lines[k]) + 1)
        ELSE "\"" \o str_split(lines[1], ".")[1] \o "\""

\* the remaining lines in their original order: every line but the one that
\* supplied an extracted subject
RemainingLines(response) ==
    LET lines == str_split(response, "\n")
        k     == SubjectLine(response)
        keep  == { j \in 1..Len(lines) : j # k }
    IN  [i \in 1..Cardinality(keep) |->
            lines[CHOOSE j \in keep :
                     Cardinality({h \in keep : h <= j}) = i]]

\* the least of two numbers
Min(a, b) == IF a <= b THEN a ELSE b

\* the latest call returned the claimed subject, one newline, and a body of
\* one line that begins with the words of the remaining lines
SubjectNewlineBody ==
    LET text  == fmt_out[1].text
        words == str_split_ws(str_join(" ",
                     RemainingLines(fmt_in[1].response)))
        kept  == Min(Len(words), fmt_in[1].target_length)
    IN  /\ fmt_out[1].kind = "return"
        /\ Newlines(text) = 1
        /\ str_split(text, "\n")[1] = ClaimedSubject(fmt_in[1].response)
        /\ Head(ClaimedSubject(fmt_in[1].response)) = "\""
        /\ Len(str_split_ws(Body(text))) >= kept
        /\ SubSeq(str_split_ws(Body(text)), 1, kept) = SubSeq(words, 1, kept)

\* C18: for every raw answer _format_response returns subject, newline and
\* body: the subject is the first closed double-quoted span of the lines or
\* the quoted first line up to its first ".", the body is the remaining lines
\* in order, length-normalized, and the output has exactly one newline.
C18_SubjectNewlineBody == fmt_in # <<>> => SubjectNewlineBody

\* the same on the calls that return
ReturnedSubjectNewlineBody == Shaped => SubjectNewlineBody

(***************************************************************************)
(* Properties of _extract_field.                                           *)
(***************************************************************************)
\* the trimmed text between the first occurrence of an indicator in the
\* lowercased text and the next punctuation mark, "" when there is none
FieldAfter(text, indicator) ==
    LET low == str_lower(text)
        at  == str_find(low, indicator, 0)
    IN  IF at = -1 THEN ""
        ELSE str_strip(Slice(low, at + Len(indicator),
                             FieldEnd(low, at + Len(indicator))))

\* the indicators of an order that occur in the text
Occurring(text, order) ==
    { k \in 1..Len(order) : str_find(str_lower(text), order[k], 0) # -1 }

\* the indicators of an order that occur in the text before a field
WithField(text, order) ==
    { k \in Occurring(text, order) : FieldAfter(text, order[k]) # "" }

Least(S) == CHOOSE k \in S : \A j \in S : k <= j

\* the order of the indicators as the claim lists it
ClaimedOrder ==
    << "in the field of", "regarding", "concerning", "about", "related to",
       "in terms of", "with respect to", "in the domain of" >>

\* the order of the indicators in _extract_field
ScanOrder ==
    << "in the field of", "in the domain of", "regarding", "concerning",
       "about", "related to", "in terms of", "with respect to" >>

\* C12 as stated: the field returned is the title-cased field following the
\* first indicator, in the order "in the field of", "regarding",
\* "concerning", "about", "related to", "in terms of", "with respect to",
\* "in the domain of", that occurs in the text.
C12_Original ==
    (ext_in # <<>> /\ WithField(ext_in[1], ClaimedOrder) # {}) =>
        ext_out[1] =
            Str(str_title(FieldAfter(ext_in[1],
                ClaimedOrder[Least(WithField(ext_in[1], ClaimedOrder))])))

\* C12: _extract_field scans the indicators in the order "in the field of",
\* "in the domain of", "regarding", "concerning", "about", "related to",
\* "in terms of", "with respect to" and returns the title-cased field
\* following the first indicator in that order that occurs in the text
\* before a non-empty field, wherever it stands in the text; it returns None
\* when no indicator does.
C12_ScanOrderDecides ==
    ext_in # <<>> =>
        IF WithField(ext_in[1], ScanOrder) = {}
        THEN ext_out[1] = None
        ELSE ext_out[1] =
                Str(str_title(FieldAfter(ext_in[1],
                    ScanOrder[Least(WithField(ext_in[1], ScanOrder))])))

\* "about biology," stands before "regarding quantum physics." in the text
\* and the field returned is "Quantum Physics"
C12_Witness ==
    /\ ext_in = <<"about biology, regarding quantum physics.">>
    /\ ext_out = <<Str("Quantum Physics")>>

====
